---- MODULE Spec2Model ----
(***************************************************************************)
(* Splay tree of chat sessions (src/splayTree.c).                          *)
(*                                                                         *)
(* Strings are sequences of character codes.  The heap is a function from  *)
(* node addresses to ChatNode records; address 0 is the null pointer.      *)
(* Every public operation of the tree is one atomic action.                *)
(***************************************************************************)
EXTENDS Integers, Sequences, FiniteSets, TLC

(* ----------------------------- bounds ---------------------------------- *)

\* Largest number of nodes an Insert may build up in the tree.
MaxNodes == 3

\* Longest title a tree may hold when it is saved and reloaded.
MaxSavedTitle == 1

\* Longest title put through the title codec.
MaxCodecTitle == 3

\* How many nodes beyond MAX_CHATS the long runs grow the tree to.
MaxExtra == 2

(* ------------------------- program constants --------------------------- *)

MAX_ID_LEN == 64
MAX_TITLE_LEN == 256
MAX_CHATS == 100
NULL == 0
\* char buffer[65536] of load_from_file
BUFFER_SIZE == 65536

(* ------------------------------ inputs --------------------------------- *)

Rep(c, n) == [i \in 1..n |-> c]

\* "a", "b", sixty-three 'k', sixty-four 'k'
KeyA == <<97>>
KeyB == <<98>>
Key63 == Rep(107, MAX_ID_LEN - 1)
Key64 == Rep(107, MAX_ID_LEN)
Keys == {KeyA, KeyB, Key63, Key64}

\* "X", "Y"
TitleX == <<88>>
TitleY == <<89>>
\* the (title, timestamp) pairs Insert is called with
Entries == {<<TitleX, 1>>, <<TitleY, 2>>}

\* the inputs of the runs that save and reload: a title that is one backslash
TitleBackslash == <<92>>
PersistKeys == {KeyA, KeyB}
PersistEntries == {<<TitleX, 1>>, <<TitleBackslash, 2>>}

\* the titles put through the codec: strings of 'X', double quote, backslash,
\* newline and carriage return
CodecChars == {88, 34, 92, 10, 13}
CodecTitles == UNION {[1..n -> CodecChars] : n \in 0..MaxCodecTitle}

NodeIds == 1..(MaxNodes + 1)

\* the runs that look into delete and the rotations: "a", "b", "c", the
\* 64-character key, one title, and trees of up to MaxNodes + 1 nodes
KeyC == <<99>>
DeepKeys == {KeyA, KeyB, KeyC, Key64}
DeepStoredKeys == {KeyA, KeyB, KeyC, Key63}
DeepEntries == {<<TitleX, 1>>}
DeepNodeIds == 1..(MaxNodes + 2)

\* the runs that follow splay and the rotations step by step: the keys "a",
\* "b", "c", ..., one for each node of the largest tree, stored as given
ShapeKeys == {<<96 + i>> : i \in 1..(MaxNodes + 1)}

\* the long runs: the keys are the 64-character key, twice, and then distinct
\* two-letter keys "ld", "le", ... in ascending order, all greater than it; the
\* j-th insert is of key LongOrder(j), a fixed scattered order over all of them
LongCount == MAX_CHATS + MaxExtra
LongKey(i) == IF i <= 2 THEN Key64 ELSE <<108 + (i \div 26), 97 + (i % 26)>>
LongOrder(j) == ((j * 37) % LongCount) + 1
LongNodeIds == 1..LongCount

(* ------------------------------ state ---------------------------------- *)

VARIABLES
    tree,     \* the SplayTree and its heap: root, size, node, live
    lastOp,   \* the last operation called, its arguments and what it returned
    hist      \* history: whether the run so far consists only of inserts of
              \* pairwise distinct keys and deletes of present keys, and their
              \* counts; and, where a map from key to (title, timestamp) is run
              \* side by side with the tree, that map

vars == <<tree, lastOp, hist>>

\* calloc'ed memory: all bytes zero
Blank == [chat_id |-> <<>>, title |-> <<>>, timestamp |-> 0,
          left |-> NULL, right |-> NULL, parent |-> NULL]

\* the tree and the heap around it: live is the set of blocks allocated and not
\* released, fault records that a block was released while not live
create_splay_tree ==
    [root |-> NULL, size |-> 0, node |-> [n \in NodeIds |-> Blank], live |-> {},
     fault |-> FALSE]

(* --------------------------- libc helpers ------------------------------ *)

MinOf(S) == CHOOSE m \in S : \A o \in S : m <= o

Sign(n) == IF n < 0 THEN -1 ELSE IF n > 0 THEN 1 ELSE 0

\* the character at position p of a NUL-terminated string (positions from 1)
At(s, p) == IF p <= Len(s) THEN s[p] ELSE 0

\* strcmp: sign of the difference at the first position where the strings
\* differ, the shorter string ending in NUL there when one is a prefix of the other
strcmp(s, t) ==
    LET n == IF Len(s) < Len(t) THEN Len(s) ELSE Len(t)
        d == {i \in 1..n : s[i] # t[i]}
    IN  IF d = {} THEN Sign(Len(s) - Len(t))
        ELSE Sign(s[MinOf(d)] - t[MinOf(d)])

\* strncpy(dst, src, n) into a buffer whose byte n is zero: at most n characters
strncpy(src, n) == SubSeq(src, 1, IF Len(src) < n THEN Len(src) ELSE n)

\* calloc: a block that is not live (the lowest free address)
calloc(M) == MinOf(DOMAIN M.node \ M.live)

\* free: the block leaves the live set; its bytes are never read again, so the
\* model zeroes them.  Releasing a block that is not live is a fault.
free(M, n) ==
    IF n \in M.live THEN [M EXCEPT !.live = @ \ {n}, !.node[n] = Blank]
    ELSE [M EXCEPT !.fault = TRUE]

(* -------------------------- tree operations ---------------------------- *)

create_node(M, id, title, timestamp) ==
    LET n == calloc(M)
    IN  [M EXCEPT !.live = @ \cup {n},
                  !.node[n] = [chat_id |-> strncpy(id, MAX_ID_LEN - 1),
                               title |-> strncpy(title, MAX_TITLE_LEN - 1),
                               timestamp |-> timestamp,
                               left |-> NULL, right |-> NULL, parent |-> NULL]]

\* the slot of x's parent that holds x is redirected to y (or the root is)
ReplaceInParent(M, x, y) ==
    LET xp == M.node[x].parent
    IN  IF xp = NULL THEN [M EXCEPT !.root = y]
        ELSE IF x = M.node[xp].left THEN [M EXCEPT !.node[xp].left = y]
        ELSE [M EXCEPT !.node[xp].right = y]

\* a right rotation that leaves tree->root as it was
rotate_right_keeping_root(M, x) ==
    LET y == M.node[x].left
    IN  IF y = NULL THEN M
        ELSE LET yr == M.node[y].right
                 xp == M.node[x].parent
                 M1 == [M EXCEPT !.node[x].left = yr]
                 M2 == IF yr # NULL THEN [M1 EXCEPT !.node[yr].parent = x] ELSE M1
                 M3 == [M2 EXCEPT !.node[y].parent = xp]
                 M4 == IF xp = NULL THEN M3 ELSE ReplaceInParent(M3, x, y)
                 M5 == [M4 EXCEPT !.node[y].right = x]
             IN  [M5 EXCEPT !.node[x].parent = y]

rotate_right(M, x) ==
    LET y == M.node[x].left
    IN  IF y = NULL THEN M
        ELSE LET yr == M.node[y].right
                 M1 == [M EXCEPT !.node[x].left = yr]
                 M2 == IF yr # NULL THEN [M1 EXCEPT !.node[yr].parent = x] ELSE M1
                 M3 == [M2 EXCEPT !.node[y].parent = M2.node[x].parent]
                 M4 == ReplaceInParent(M3, x, y)
                 M5 == [M4 EXCEPT !.node[y].right = x]
             IN  [M5 EXCEPT !.node[x].parent = y]

rotate_left(M, x) ==
    LET y == M.node[x].right
    IN  IF y = NULL THEN M
        ELSE LET yl == M.node[y].left
                 M1 == [M EXCEPT !.node[x].right = yl]
                 M2 == IF yl # NULL THEN [M1 EXCEPT !.node[yl].parent = x] ELSE M1
                 M3 == [M2 EXCEPT !.node[y].parent = M2.node[x].parent]
                 M4 == ReplaceInParent(M3, x, y)
                 M5 == [M4 EXCEPT !.node[y].left = x]
             IN  [M5 EXCEPT !.node[x].parent = y]

\* an iteration that always makes the single rotation of the zig case
splay_step_single_rotation(M, x) ==
    LET p == M.node[x].parent
    IN  IF x = M.node[p].left THEN rotate_right(M, p) ELSE rotate_left(M, p)

\* one iteration of splay's loop, x having a parent
splay_step(M, x) ==
    LET p == M.node[x].parent
        g == M.node[p].parent
    IN  IF g = NULL THEN
            IF x = M.node[p].left THEN rotate_right(M, p) ELSE rotate_left(M, p)
        ELSE IF x = M.node[p].left /\ p = M.node[g].left THEN
            rotate_right(rotate_right(M, g), p)
        ELSE IF x = M.node[p].right /\ p = M.node[g].right THEN
            rotate_left(rotate_left(M, g), p)
        ELSE IF x = M.node[p].right /\ p = M.node[g].left THEN
            rotate_right(rotate_left(M, p), g)
        ELSE
            rotate_left(rotate_right(M, p), g)

\* splay with the loop left as soon as x's parent is the root: the final zig
\* is never made
RECURSIVE splay_without_zig(_, _)
splay_without_zig(M, x) ==
    IF x = NULL THEN M
    ELSE IF M.node[x].parent = NULL THEN M
    ELSE IF M.node[M.node[x].parent].parent = NULL THEN M
    ELSE splay_without_zig(splay_step(M, x), x)

RECURSIVE splay(_, _)
splay(M, x) ==
    IF x = NULL THEN M
    ELSE IF M.node[x].parent = NULL THEN M
    ELSE splay(splay_step(M, x), x)

RECURSIVE find_from(_, _, _)
find_from(M, curr, chat_id) ==
    IF curr = NULL THEN NULL
    ELSE LET cmp == strcmp(chat_id, M.node[curr].chat_id)
         IN  IF cmp = 0 THEN curr
             ELSE IF cmp < 0 THEN find_from(M, M.node[curr].left, chat_id)
             ELSE find_from(M, M.node[curr].right, chat_id)

\* a find that answers with the root where the key is not found
find_node_never_absent(M, chat_id) ==
    IF find_from(M, M.root, chat_id) = NULL THEN M.root
    ELSE find_from(M, M.root, chat_id)

find_node(M, chat_id) == find_from(M, M.root, chat_id)

\* insert_chat's descent from curr: the node that matches id, or else the last
\* node visited
RECURSIVE insert_descend(_, _, _)
insert_descend(M, curr, id) ==
    LET cmp == strcmp(id, M.node[curr].chat_id)
        next == IF cmp < 0 THEN M.node[curr].left ELSE M.node[curr].right
    IN  IF cmp = 0 THEN [match |-> curr, parent |-> curr]
        ELSE IF next = NULL THEN [match |-> NULL, parent |-> curr]
        ELSE insert_descend(M, next, id)

\* the update of a node that already holds the key
insert_update(M, curr, title, timestamp) ==
    [M EXCEPT !.node[curr].title = strncpy(title, MAX_TITLE_LEN - 1),
              !.node[curr].timestamp = timestamp]

\* the attachment of new_node under parent
insert_attach(M, new_node, parent, id) ==
    LET M1 == [M EXCEPT !.node[new_node].parent = parent]
        M2 == IF strcmp(id, M1.node[parent].chat_id) < 0
              THEN [M1 EXCEPT !.node[parent].left = new_node]
              ELSE [M1 EXCEPT !.node[parent].right = new_node]
    IN  [M2 EXCEPT !.size = @ + 1]

\* insert_chat that keeps the node it created when the key is already held
insert_chat_leaking(M, id, title, timestamp) ==
    LET new_node == calloc(M)
        M0 == create_node(M, id, title, timestamp)
    IN  IF M0.root = NULL THEN
            [tree |-> [M0 EXCEPT !.root = new_node, !.size = 1], ret |-> new_node]
        ELSE
            LET d == insert_descend(M0, M0.root, id)
            IN  IF d.match # NULL THEN
                    [tree |-> splay(insert_update(M0, d.match, title, timestamp), d.match),
                     ret |-> d.match]
                ELSE
                    [tree |-> splay(insert_attach(M0, new_node, d.parent, id), new_node),
                     ret |-> new_node]

\* the resulting tree and the returned node
insert_chat(M, id, title, timestamp) ==
    LET new_node == calloc(M)
        M0 == create_node(M, id, title, timestamp)
    IN  IF M0.root = NULL THEN
            [tree |-> [M0 EXCEPT !.root = new_node, !.size = 1], ret |-> new_node]
        ELSE
            LET d == insert_descend(M0, M0.root, id)
            IN  IF d.match # NULL THEN
                    [tree |-> splay(free(insert_update(M0, d.match, title, timestamp),
                                         new_node), d.match),
                     ret |-> d.match]
                ELSE
                    [tree |-> splay(insert_attach(M0, new_node, d.parent, id), new_node),
                     ret |-> new_node]

\* access_chat that also stamps the node it found
access_chat_touching(M, chat_id) ==
    LET node == find_node(M, chat_id)
    IN  [tree |-> IF node # NULL
                  THEN splay([M EXCEPT !.node[node].timestamp = @ + 1], node)
                  ELSE M,
         ret |-> node]

access_chat(M, chat_id) ==
    LET node == find_node(M, chat_id)
    IN  [tree |-> IF node # NULL THEN splay(M, node) ELSE M, ret |-> node]

RECURSIVE rightmost(_, _)
rightmost(M, n) == IF M.node[n].right # NULL THEN rightmost(M, M.node[n].right) ELSE n

\* the detach step without the splay of the maximum: the left subtree's root
\* becomes the root as it is
delete_splay_max_unsplayed(M, node) ==
    LET l == M.node[node].left
        r == M.node[node].right
        M1 == [M EXCEPT !.node[l].parent = NULL, !.node[r].parent = NULL]
    IN  [M1 EXCEPT !.root = l]

\* the target, at the root, having both children: the tree after both subtrees
\* are detached, the root is set to the left one and its maximum is splayed
delete_splay_max(M, node) ==
    LET l == M.node[node].left
        r == M.node[node].right
        M1 == [M EXCEPT !.node[l].parent = NULL, !.node[r].parent = NULL]
        max_left == rightmost(M1, l)
    IN  splay([M1 EXCEPT !.root = l], max_left)

\* delete_unlink that leaves the new root's parent pointer as it was when the
\* target has a single child
delete_unlink_stale_parent(M, node) ==
    LET l == M.node[node].left
        r == M.node[node].right
    IN  IF l = NULL THEN [M EXCEPT !.root = r]
        ELSE IF r = NULL THEN [M EXCEPT !.root = l]
        ELSE
            LET M2 == delete_splay_max(M, node)
                M3 == [M2 EXCEPT !.node[M2.root].right = r]
            IN  [M3 EXCEPT !.node[r].parent = M3.root]

\* the new root after the target, splayed to the root, is cut out
delete_unlink(M, node) ==
    LET l == M.node[node].left
        r == M.node[node].right
    IN  IF l = NULL THEN
            LET M1 == [M EXCEPT !.root = r]
            IN  IF r # NULL THEN [M1 EXCEPT !.node[r].parent = NULL] ELSE M1
        ELSE IF r = NULL THEN
            [M EXCEPT !.root = l, !.node[l].parent = NULL]
        ELSE
            LET M2 == delete_splay_max(M, node)
                M3 == [M2 EXCEPT !.node[M2.root].right = r]
            IN  [M3 EXCEPT !.node[r].parent = M3.root]

delete_chat(M, chat_id) ==
    LET node == find_node(M, chat_id)
    IN  IF node = NULL THEN [tree |-> M, ret |-> 0]
        ELSE LET M1 == delete_unlink(splay(M, node), node)
                 M2 == free(M1, node)
             IN  [tree |-> [M2 EXCEPT !.size = @ - 1], ret |-> 1]

RECURSIVE clear_tree(_, _)
clear_tree(M, node) ==
    IF node = NULL THEN M
    ELSE LET l == M.node[node].left
             r == M.node[node].right
         IN  free(clear_tree(clear_tree(M, l), r), node)

clear_all(M) == [clear_tree(M, M.root) EXCEPT !.root = NULL, !.size = 0]

(* ----------------------- collection and listing ------------------------ *)

\* collect_inorder with both checks of the count off by one
RECURSIVE collect_inorder_off_by_one(_, _, _)
collect_inorder_off_by_one(M, node, list) ==
    IF node = NULL \/ Len(list) > MAX_CHATS THEN list
    ELSE LET l1 == collect_inorder_off_by_one(M, M.node[node].left, list)
             l2 == IF Len(l1) <= MAX_CHATS THEN Append(l1, node) ELSE l1
         IN  collect_inorder_off_by_one(M, M.node[node].right, l2)

\* list->nodes after the traversal of the subtree at node, list being the
\* nodes collected before it
RECURSIVE collect_inorder(_, _, _)
collect_inorder(M, node, list) ==
    IF node = NULL \/ Len(list) >= MAX_CHATS THEN list
    ELSE LET l1 == collect_inorder(M, M.node[node].left, list)
             l2 == IF Len(l1) < MAX_CHATS THEN Append(l1, node) ELSE l1
         IN  collect_inorder(M, M.node[node].right, l2)

compare_by_timestamp(M, na, nb) ==
    IF M.node[nb].timestamp > M.node[na].timestamp THEN 1
    ELSE IF M.node[nb].timestamp < M.node[na].timestamp THEN -1
    ELSE 0

Perms(list) ==
    {p \in [1..Len(list) -> 1..Len(list)] : \A i, j \in 1..Len(list) : i # j => p[i] # p[j]}

\* qsort: some arrangement of the array in which no element compares greater
\* than its successor; the order of elements that compare equal is unspecified
qsort(M, list) ==
    {[i \in 1..Len(list) |-> list[p[i]]] : p \in
        {q \in Perms(list) : \A i \in 1..(Len(list) - 1) :
            compare_by_timestamp(M, list[q[i]], list[q[i + 1]]) <= 0}}

\* the arrays output_list may print
output_list(M) == qsort(M, collect_inorder(M, M.root, <<>>))

(* ---------------------------- persistence ------------------------------ *)

\* the text escaped so far being out, the escaping of str from position i on
RECURSIVE json_escape_from(_, _, _, _)
json_escape_from(str, i, out, max_len) ==
    IF At(str, i) = 0 \/ ~(Len(out) < max_len - 2) THEN out
    ELSE LET c == str[i]
             o1 == IF c = 34 \/ c = 92 THEN Append(out, 92) ELSE out
             o2 == IF c = 10 THEN o1 \o <<92, 110>>
                   ELSE IF c = 13 THEN o1
                   ELSE Append(o1, c)
         IN  json_escape_from(str, i + 1, o2, max_len)

json_escape(str, max_len) == json_escape_from(str, 1, <<>>, max_len)

\* printf's %ld
RECURSIVE Decimal(_)
Decimal(n) == IF n < 10 THEN <<48 + n>> ELSE Decimal(n \div 10) \o <<48 + (n % 10)>>

FormatLong(n) == IF n < 0 THEN <<45>> \o Decimal(0 - n) ELSE Decimal(n)

\* {"id":"%s","title":"%s","timestamp":%ld}
FormatChat(M, n) ==
    <<123, 34, 105, 100, 34, 58, 34>> \o M.node[n].chat_id
    \o <<34, 44, 34, 116, 105, 116, 108, 101, 34, 58, 34>>
    \o json_escape(M.node[n].title, MAX_TITLE_LEN * 2)
    \o <<34, 44, 34, 116, 105, 109, 101, 115, 116, 97, 109, 112, 34, 58>>
    \o FormatLong(M.node[n].timestamp) \o <<125>>

RECURSIVE FormatChats(_, _, _)
FormatChats(M, list, i) ==
    IF i > Len(list) THEN <<>>
    ELSE (IF i > 1 THEN <<44>> ELSE <<>>) \o FormatChat(M, list[i])
         \o FormatChats(M, list, i + 1)

\* the contents of the history file after save_to_file: {"chats":[ ... ]}
save_to_file(M) ==
    <<123, 34, 99, 104, 97, 116, 115, 34, 58, 91>>
    \o FormatChats(M, collect_inorder(M, M.root, <<>>), 1) \o <<93, 125>>

\* strstr from position p: where pat first occurs, or 0
RECURSIVE strstr(_, _, _)
strstr(buf, p, pat) ==
    IF p + Len(pat) - 1 > Len(buf) THEN 0
    ELSE IF SubSeq(buf, p, p + Len(pat) - 1) = pat THEN p
    ELSE strstr(buf, p + 1, pat)

IsSpace(c) == c = 32 \/ (c >= 9 /\ c <= 13)
IsDigit(c) == c >= 48 /\ c <= 57

RECURSIVE atol_digits(_, _, _)
atol_digits(buf, p, acc) ==
    IF IsDigit(At(buf, p)) THEN atol_digits(buf, p + 1, 10 * acc + (At(buf, p) - 48))
    ELSE acc

RECURSIVE atol(_, _)
atol(buf, p) ==
    IF IsSpace(At(buf, p)) THEN atol(buf, p + 1)
    ELSE IF At(buf, p) = 45 THEN 0 - atol_digits(buf, p + 1, 0)
    ELSE IF At(buf, p) = 43 THEN atol_digits(buf, p + 1, 0)
    ELSE atol_digits(buf, p, 0)

\* the id read from position p on, and where the reading stopped
RECURSIVE parse_id(_, _, _)
parse_id(buf, p, id) ==
    IF At(buf, p) # 0 /\ At(buf, p) # 34 /\ Len(id) < MAX_ID_LEN - 1
    THEN parse_id(buf, p + 1, Append(id, At(buf, p)))
    ELSE [id |-> id, ptr |-> p]

\* the title decoded from position p on
RECURSIVE parse_title(_, _, _)
parse_title(buf, p, title) ==
    IF At(buf, p) = 0 \/ ~(Len(title) < MAX_TITLE_LEN - 1) THEN title
    ELSE IF At(buf, p) = 92 /\ At(buf, p + 1) = 34 THEN
        parse_title(buf, p + 2, Append(title, 34))
    ELSE IF At(buf, p) = 92 /\ At(buf, p + 1) = 110 THEN
        parse_title(buf, p + 2, Append(title, 10))
    ELSE IF At(buf, p) = 34 THEN title
    ELSE parse_title(buf, p + 1, Append(title, At(buf, p)))

\* load_from_file's loop from position ptr of the buffer
RECURSIVE load_loop(_, _, _)
load_loop(M, buf, ptr) ==
    LET id_ptr == strstr(buf, ptr, <<34, 105, 100, 34, 58, 34>>)
    IN  IF id_ptr = 0 THEN M
        ELSE
        LET r == parse_id(buf, id_ptr + 6, <<>>)
            title_ptr == strstr(buf, r.ptr, <<34, 116, 105, 116, 108, 101, 34, 58, 34>>)
        IN  IF title_ptr = 0 THEN M
            ELSE
            LET title == parse_title(buf, title_ptr + 9, <<>>)
                ts_ptr == strstr(buf, r.ptr,
                                 <<34, 116, 105, 109, 101, 115, 116, 97, 109, 112, 34, 58>>)
            IN  IF ts_ptr = 0 THEN M
                ELSE load_loop(insert_chat(M, r.id, title, atol(buf, ts_ptr + 12)).tree,
                               buf, ts_ptr + 12)

\* the tree after load_from_file has read a history file holding text
load_from_file(M, text) == load_loop(M, strncpy(text, BUFFER_SIZE - 1), 1)

(* ------------------------------ actions -------------------------------- *)

NoHist == [pure |-> FALSE, keys |-> {}, n |-> 0, m |-> 0, side |-> FALSE, map |-> {}]

\* the map run side by side, as its set of <<key, title, timestamp>> entries
MapRemove(map, id) == {t \in map : t[1] # id}
MapSet(map, id, e) == MapRemove(map, id) \cup {<<id, e[1], e[2]>>}

Op(name, id, ret, out) == [name |-> name, id |-> id, ret |-> ret, out |-> out]

Init ==
    /\ tree = create_splay_tree
    /\ lastOp = Op("init", <<>>, 0, <<>>)
    /\ hist = NoHist

\* the same start, with the history of inserts and deletes recorded
InitCount ==
    /\ tree = create_splay_tree
    /\ lastOp = Op("init", <<>>, 0, <<>>)
    /\ hist = [NoHist EXCEPT !.pure = TRUE]

\* the same start, with the map from key to (title, timestamp) run side by side
InitMap ==
    /\ tree = create_splay_tree
    /\ lastOp = Op("init", <<>>, 0, <<>>)
    /\ hist = [NoHist EXCEPT !.side = TRUE]

\* an Insert that would add a node is taken only below the bound
InsertRoom(M, id, cap) ==
    IF M.size < cap THEN TRUE ELSE insert_descend(M, M.root, id).match # NULL

InsertAllowed(M, id) == InsertRoom(M, id, MaxNodes)

InsertWithin(K, E, cap) ==
    \E id \in K, e \in E :
        /\ InsertRoom(tree, id, cap)
        /\ LET r == insert_chat(tree, id, e[1], e[2])
           IN  /\ tree' = r.tree
               /\ lastOp' = Op("insert", id, r.ret, e)
        /\ hist' = IF hist.pure /\ id \notin hist.keys
                   THEN [hist EXCEPT !.keys = @ \cup {id}, !.n = @ + 1]
                   ELSE IF hist.side THEN [hist EXCEPT !.map = MapSet(@, id, e)]
                   ELSE NoHist

InsertOf(K, E) == InsertWithin(K, E, MaxNodes)

Insert == InsertOf(Keys, Entries)

Access ==
    \E id \in Keys :
        LET r == access_chat(tree, id)
        IN  /\ tree' = r.tree
            /\ lastOp' = Op("access", id, r.ret, <<>>)
            /\ hist' = IF hist.side THEN hist ELSE NoHist

DeleteOf(K) ==
    \E id \in K :
        LET r == delete_chat(tree, id)
        IN  /\ tree' = r.tree
            /\ lastOp' = Op("delete", id, r.ret, <<>>)
            /\ hist' = IF hist.pure /\ r.ret = 1 THEN [hist EXCEPT !.m = @ + 1]
                        ELSE IF hist.side THEN [hist EXCEPT !.map = MapRemove(@, id)]
                        ELSE NoHist

Delete == DeleteOf(Keys)

Clear ==
    /\ tree' = clear_all(tree)
    /\ lastOp' = Op("clear", <<>>, 0, <<>>)
    /\ hist' = IF hist.side THEN [hist EXCEPT !.map = {}] ELSE NoHist

\* the list command: output_list prints one of the arrays qsort may produce
List ==
    \E out \in output_list(tree) :
        /\ tree' = tree
        /\ lastOp' = Op("list", <<>>, 0, out)
        /\ hist' = NoHist

PersistInsert == InsertOf(PersistKeys, PersistEntries)

\* the end of one run of main and the start of the next: the tree is saved, the
\* process exits, and a new process loads the file into a new tree.  Taken
\* only while every title is within MaxSavedTitle characters.
Restart ==
    /\ \A n \in tree.live : Len(tree.node[n].title) <= MaxSavedTitle
    /\ tree' = load_from_file(create_splay_tree, save_to_file(tree))
    /\ lastOp' = Op("restart", <<>>, 0, <<>>)
    /\ hist' = NoHist

\* the codec runs start from a title to be saved
InitCodec ==
    /\ tree = create_splay_tree
    /\ lastOp \in {Op("title", t, 0, <<>>) : t \in CodecTitles}
    /\ hist = NoHist

\* add: the title is stored in an empty tree and the tree is saved; out is the
\* text of the history file
SaveTitle ==
    /\ lastOp.name = "title"
    /\ lastOp' = Op("saved", lastOp.id, 0,
                    save_to_file(insert_chat(create_splay_tree, KeyA, lastOp.id, 1).tree))
    /\ UNCHANGED <<tree, hist>>

\* the next run of main loads the file; out is the title of the loaded entry
LoadTitle ==
    /\ lastOp.name = "saved"
    /\ LET T == load_from_file(create_splay_tree, lastOp.out)
       IN  lastOp' = Op("loaded", lastOp.id, 0,
                        IF T.root = NULL THEN <<>> ELSE T.node[T.root].title)
    /\ UNCHANGED <<tree, hist>>

\* the long runs start from an empty tree in a heap of LongCount blocks
InitLong ==
    /\ tree = [create_splay_tree EXCEPT !.node = [n \in LongNodeIds |-> Blank]]
    /\ lastOp = Op("init", <<>>, 0, <<>>)
    /\ hist = NoHist

\* add, in a long run: the next key of the order
LongInsert ==
    /\ lastOp.name \in {"init", "insert"}
    /\ tree.size < LongCount
    /\ LET id == LongKey(LongOrder(tree.size + 1))
           r == insert_chat(tree, id, TitleX, 1)
       IN  /\ tree' = r.tree
           /\ lastOp' = Op("insert", id, r.ret, <<TitleX, 1>>)
    /\ hist' = NoHist

\* access, in a long run: once, of any key, when the tree holds MAX_CHATS nodes
\* or more
LongAccess ==
    /\ lastOp.name = "insert"
    /\ tree.size >= MAX_CHATS
    /\ \E i \in 1..LongCount :
          LET r == access_chat(tree, LongKey(i))
          IN  /\ tree' = r.tree
              /\ lastOp' = Op("access", LongKey(i), r.ret, <<>>)
    /\ hist' = NoHist

\* the traversal save_to_file and output_list start with; out is list.nodes
CollectAll ==
    /\ lastOp.name # "collect"
    /\ tree' = tree
    /\ lastOp' = Op("collect", <<>>, 0, collect_inorder(tree, tree.root, <<>>))
    /\ hist' = NoHist

InitDeep ==
    /\ tree = [create_splay_tree EXCEPT !.node = [n \in DeepNodeIds |-> Blank]]
    /\ lastOp = Op("init", <<>>, 0, <<>>)
    /\ hist = NoHist

DeepInsert == InsertWithin(DeepKeys, DeepEntries, MaxNodes + 1)

DeepDelete == DeleteOf(DeepStoredKeys)

\* splay(tree, x), one loop iteration at a time.  lastOp holds the call's
\* position: "splay" inside the loop with x in ret and the number of
\* iterations made in out, "splayed" once it has returned.
ShapeInsert ==
    /\ lastOp.name # "splay"
    /\ InsertWithin(ShapeKeys, DeepEntries, MaxNodes + 1)

SplayBegin ==
    /\ lastOp.name # "splay"
    /\ \E x \in tree.live : lastOp' = Op("splay", <<>>, x, <<0>>)
    /\ UNCHANGED <<tree, hist>>

SplayStep ==
    /\ lastOp.name = "splay"
    /\ tree.node[lastOp.ret].parent # NULL
    /\ tree' = splay_step(tree, lastOp.ret)
    /\ lastOp' = [lastOp EXCEPT !.out = <<@[1] + 1>>]
    /\ UNCHANGED hist

SplayEnd ==
    /\ lastOp.name = "splay"
    /\ tree.node[lastOp.ret].parent = NULL
    /\ lastOp' = [lastOp EXCEPT !.name = "splayed"]
    /\ UNCHANGED <<tree, hist>>

\* a single rotation at any node of the tree
RotateRight ==
    \E x \in tree.live :
        /\ tree' = rotate_right(tree, x)
        /\ lastOp' = Op("rotate_right", <<>>, x, <<>>)
        /\ UNCHANGED hist

RotateLeft ==
    \E x \in tree.live :
        /\ tree' = rotate_left(tree, x)
        /\ lastOp' = Op("rotate_left", <<>>, x, <<>>)
        /\ UNCHANGED hist

Next == Insert \/ Access \/ Delete \/ Clear

Spec == Init /\ [][Next]_vars

\* the runs in which the inserts and deletes are counted
SpecCount == InitCount /\ [][Next]_vars

NextList == Insert \/ Access \/ Delete \/ Clear \/ List

\* the runs that also list the sessions
SpecList == Init /\ [][NextList]_vars

NextPersist == PersistInsert \/ Access \/ Delete \/ Restart

\* the runs that save and reload the tree
SpecPersist == Init /\ [][NextPersist]_vars

(* ------------------- notions the properties are stated in --------------- *)

Children(M, n) == {M.node[n].left, M.node[n].right} \ {NULL}

\* the nodes reached from the nodes of S within k links
RECURSIVE Within(_, _, _)
Within(M, S, k) ==
    LET T == S \cup UNION {Children(M, n) : n \in S}
    IN  IF k = 0 \/ T = S THEN S ELSE Within(M, T, k - 1)

\* the subtree at n, and the nodes of the tree
Subtree(M, n) == Within(M, {n} \ {NULL}, Cardinality(DOMAIN M.node))
Reach(M) == Subtree(M, M.root)

\* the tree holds key
Present(M, key) == \E n \in Reach(M) : M.node[n].chat_id = key

\* the in-order Collect and what it shows of each node
Collect(M) == collect_inorder(M, M.root, <<>>)
Triples(M) ==
    [i \in 1..Len(Collect(M)) |->
        <<M.node[Collect(M)[i]].chat_id, M.node[Collect(M)[i]].title,
          M.node[Collect(M)[i]].timestamp>>]

Less(s, t) == strcmp(s, t) < 0

(* ------------------------------- claims --------------------------------- *)

\* C1: every node's key is strictly greater than every key of its left subtree
\* and strictly less than every key of its right subtree, and the in-order
\* Collect lists the keys in strictly ascending order.
C1_BSTOrder ==
    /\ \A n \in Reach(tree) :
          /\ \A m \in Subtree(tree, tree.node[n].left) :
                Less(tree.node[m].chat_id, tree.node[n].chat_id)
          /\ \A m \in Subtree(tree, tree.node[n].right) :
                Less(tree.node[n].chat_id, tree.node[m].chat_id)
    /\ \A i \in 1..(Len(Collect(tree)) - 1) :
          Less(tree.node[Collect(tree)[i]].chat_id, tree.node[Collect(tree)[i + 1]].chat_id)

\* C2: the root has no parent, every other node of the tree is the left or the
\* right child of its parent, and every child link of a node leads to a node
\* whose parent is that node.
C2_ParentConsistency ==
    /\ tree.root # NULL => tree.node[tree.root].parent = NULL
    /\ \A n \in Reach(tree) \ {tree.root} :
          /\ tree.node[n].parent \in Reach(tree)
          /\ n \in Children(tree, tree.node[n].parent)
    /\ \A n \in Reach(tree) : \A c \in Children(tree, n) : tree.node[c].parent = n

\* a delete has cut the root out of a tree of three nodes
C2_Witness ==
    /\ lastOp.name = "delete"
    /\ lastOp.ret = 1
    /\ tree.size = 2
    /\ Cardinality(Reach(tree)) = 2

\* C3: size is the number of nodes of the tree; and after N inserts of distinct
\* keys and M deletes of present keys, size is N - M.
C3_SizeConsistency ==
    /\ tree.size = Cardinality(Reach(tree))
    /\ hist.pure => tree.size = hist.n - hist.m

\* C4: an Insert of a key the tree holds adds no node, leaves size unchanged
\* and overwrites that node's title and timestamp with the values passed; no two
\* nodes of the tree ever hold the same key.
C4_KeyUnique ==
    [][/\ (lastOp'.name = "insert" /\ Present(tree, lastOp'.id)) =>
             /\ tree'.size = tree.size
             /\ Reach(tree') = Reach(tree)
             /\ \A n \in Reach(tree') :
                   tree'.node[n].chat_id = lastOp'.id =>
                      /\ tree'.node[n].title = lastOp'.out[1]
                      /\ tree'.node[n].timestamp = lastOp'.out[2]
       /\ \A n, m \in Reach(tree') :
             n # m => tree'.node[n].chat_id # tree'.node[m].chat_id]_vars

\* C5: after Insert(key, ...) the returned node is the root, the root's stored
\* key is the key passed in, Find(key) returns it, and size has grown by one if
\* the key was absent and by zero otherwise.
C5_InsertPost ==
    [][lastOp'.name = "insert" =>
          /\ lastOp'.ret = tree'.root
          /\ tree'.node[tree'.root].chat_id = lastOp'.id
          /\ find_node(tree', lastOp'.id) = lastOp'.ret
          /\ tree'.size = tree.size + (IF Present(tree, lastOp'.id) THEN 0 ELSE 1)]_vars

\* C6: after Access(k) of a key k the tree holds, the returned node is the root
\* and its key is k.
C6_SplayToRoot ==
    [][(lastOp'.name = "access" /\ Present(tree, lastOp'.id)) =>
          /\ lastOp'.ret # NULL
          /\ lastOp'.ret = tree'.root
          /\ tree'.node[tree'.root].chat_id = lastOp'.id]_vars

\* an access has brought a node of a tree of three to the root, between the
\* other two
C6_Witness ==
    /\ lastOp.name = "access"
    /\ lastOp.ret # NULL
    /\ tree.node[lastOp.ret].chat_id = lastOp.id
    /\ tree.size = 3
    /\ tree.node[lastOp.ret].left # NULL
    /\ tree.node[lastOp.ret].right # NULL

\* C7: Delete(k) of a key the tree holds returns true, decreases size by one,
\* and Find(k) is absent afterwards; Delete of an absent key returns false and
\* leaves size unchanged.
C7_DeleteCorrect ==
    [][lastOp'.name = "delete" =>
          IF Present(tree, lastOp'.id)
          THEN /\ lastOp'.ret = 1
               /\ tree'.size = tree.size - 1
               /\ find_node(tree', lastOp'.id) = NULL
          ELSE /\ lastOp'.ret = 0
               /\ tree'.size = tree.size]_vars

\* C8: Access changes no node's title, timestamp or key, nor the set of nodes,
\* nor size.
C8_AccessFrame ==
    [][lastOp'.name = "access" =>
          /\ tree'.size = tree.size
          /\ tree'.live = tree.live
          /\ Reach(tree') = Reach(tree)
          /\ \A n \in NodeIds :
                /\ tree'.node[n].chat_id = tree.node[n].chat_id
                /\ tree'.node[n].title = tree.node[n].title
                /\ tree'.node[n].timestamp = tree.node[n].timestamp]_vars

\* an access has returned the root of a tree in which some node lies two
\* levels below it
C8_Witness ==
    /\ lastOp.name = "access"
    /\ lastOp.ret = tree.root
    /\ tree.root # NULL
    /\ \E c \in Children(tree, tree.root) : Children(tree, c) # {}

\* the array is in descending order of timestamp, nodes of equal timestamp
\* standing in the order they have in list
StableDescending(M, list, out) ==
    /\ out \in qsort(M, list)
    /\ \A i, j \in 1..Len(list) :
          (i < j /\ M.node[list[i]].timestamp = M.node[list[j]].timestamp) =>
             \E a, b \in 1..Len(out) : a < b /\ out[a] = list[i] /\ out[b] = list[j]

\* C9: list() gives the collected nodes by descending timestamp, nodes of equal
\* timestamp in their in-order (ascending key) order.
C9_RecencyListing ==
    lastOp.name = "list" => StableDescending(tree, Collect(tree), lastOp.out)

\* C10: saving the tree and loading the file into an empty tree gives a tree
\* with the same ascending sequence of (key, title, timestamp) triples.
C10_RoundTrip ==
    [][lastOp'.name = "restart" => Triples(tree') = Triples(tree)]_vars

NextCodec == SaveTitle \/ LoadTitle

\* the runs that put one title through json_escape and load_from_file's parser
SpecCodec == InitCodec /\ [][NextCodec]_vars

\* a string without its carriage returns
RECURSIVE WithoutCR(_)
WithoutCR(s) ==
    IF s = <<>> THEN <<>>
    ELSE (IF Head(s) = 13 THEN <<>> ELSE <<Head(s)>>) \o WithoutCR(Tail(s))

\* C11: a title saved (json_escape) and loaded (load_from_file's title parser)
\* comes back as the original title without its carriage returns.
C11_TitleRoundTrip ==
    lastOp.name = "loaded" => lastOp.out = WithoutCR(lastOp.id)

NextLong == LongInsert \/ LongAccess \/ CollectAll

\* the runs that grow the tree past MAX_CHATS nodes
SpecLong == InitLong /\ [][NextLong]_vars

Range(s) == {s[i] : i \in 1..Len(s)}

\* C12: Collect stores at most MAX_CHATS nodes, in ascending key order: all the
\* nodes of a tree of at most MAX_CHATS nodes, and exactly the MAX_CHATS
\* smallest keys of a larger tree.
C12_CappedCollect ==
    lastOp.name = "collect" =>
        LET out == lastOp.out
            key(n) == tree.node[n].chat_id
        IN  /\ Len(out) <= MAX_CHATS
            /\ Range(out) \subseteq Reach(tree)
            /\ Cardinality(Range(out)) = Len(out)
            /\ \A i \in 1..(Len(out) - 1) : strcmp(key(out[i]), key(out[i + 1])) <= 0
            /\ Cardinality(Reach(tree)) <= MAX_CHATS => Range(out) = Reach(tree)
            /\ Cardinality(Reach(tree)) > MAX_CHATS =>
                  /\ Len(out) = MAX_CHATS
                  /\ \A n \in Reach(tree) \ Range(out) : \A m \in Range(out) :
                        strcmp(key(m), key(n)) <= 0

\* a tree of more than MAX_CHATS nodes, reshaped by an access, has been collected
C12_Witness ==
    /\ lastOp.name = "collect"
    /\ tree.size > MAX_CHATS
    /\ Len(lastOp.out) = MAX_CHATS
    /\ tree.node[tree.root].left # NULL
    /\ tree.node[tree.root].right # NULL

\* the pointers of M: the root and the links of the live nodes
Pointers(M) ==
    {M.root} \cup UNION {{M.node[n].left, M.node[n].right, M.node[n].parent} : n \in M.live}

\* C13: no block is released while not live, and after every operation the live
\* blocks are exactly the nodes of the tree and no pointer leads to a released
\* block; an Insert of a held key leaves the live set as it was (the node it
\* created is released within it), an Insert of a new key adds one block, a
\* successful Delete releases one, Clear releases all, Access none.
C13_ReleaseOnce ==
    [][/\ ~tree'.fault
       /\ tree'.live = Reach(tree')
       /\ Pointers(tree') \subseteq tree'.live \cup {NULL}
       /\ lastOp'.name = "insert" =>
             /\ tree.live \subseteq tree'.live
             /\ Cardinality(tree'.live \ tree.live) =
                   (IF find_node(tree, lastOp'.id) # NULL THEN 0 ELSE 1)
       /\ lastOp'.name = "delete" =>
             /\ tree'.live \subseteq tree.live
             /\ Cardinality(tree.live \ tree'.live) = lastOp'.ret
       /\ lastOp'.name = "clear" => tree'.live = {}
       /\ lastOp'.name = "access" => tree'.live = tree.live]_vars

\* an Insert has returned a node at an address above a free one: calloc gives
\* the lowest free address, so the node is one the tree already held, and the
\* node the Insert created has been released
C13_Witness ==
    /\ lastOp.name = "insert"
    /\ \E a \in DOMAIN tree.node \ tree.live : a < lastOp.ret
    /\ tree.size = 2

NextDelete == DeepInsert \/ DeepDelete

\* the runs of inserts and deletes on trees of up to MaxNodes + 1 nodes
SpecDelete == InitDeep /\ [][NextDelete]_vars

\* the node before n in the in-order sequence of M (NULL if n is the first)
Predecessor(M, n) ==
    LET c == Collect(M)
        i == CHOOSE j \in 1..Len(c) : c[j] = n
    IN  IF i = 1 THEN NULL ELSE c[i - 1]

\* C14: when the target of a Delete has both children once splayed to the root,
\* then after the maximum of the detached left subtree is splayed it is the
\* root, with no parent and no right child; and on return the root is that
\* node, the in-order predecessor of the target before the delete, the former
\* right subtree is its right child with it as parent, and the target is no
\* longer in the tree.
C14_TwoChildSplice ==
    [][lastOp'.name = "delete" =>
         \A node \in {find_node(tree, lastOp'.id)} \ {NULL} :
         \A S \in {splay(tree, node)} :
         \A L \in {S.node[node].left} \ {NULL} :
         \A R \in {S.node[node].right} \ {NULL} :
         \A Max \in {Predecessor(tree, node)} :
         \A Mid \in {delete_splay_max(S, node)} :
              /\ Max = rightmost(S, L)
              /\ Mid.root = Max
              /\ Mid.node[Max].parent = NULL
              /\ Mid.node[Max].right = NULL
              /\ tree'.root = Max
              /\ tree'.node[Max].right = R
              /\ tree'.node[R].parent = Max
              /\ Subtree(tree', R) = Subtree(S, R)
              /\ node \notin Reach(tree')]_vars

\* a delete has removed a key that had smaller and larger keys around it, so
\* its node had both children, and the left subtree had more than one node
C14_Witness ==
    /\ lastOp.name = "delete"
    /\ lastOp.ret = 1
    /\ \E n \in Reach(tree) : strcmp(tree.node[n].chat_id, lastOp.id) > 0
    /\ \E n \in Reach(tree) : strcmp(tree.node[n].chat_id, lastOp.id) < 0
    /\ tree.node[tree.root].right # NULL
    /\ tree.node[tree.root].left # NULL

\* the runs of Spec with the map from key to (title, timestamp) side by side
SpecMap == InitMap /\ [][Next]_vars

\* C15: after every operation of any sequence, the set of (key, title,
\* timestamp) triples reachable from the root equals the map from key to
\* (title, timestamp) run side by side, in which Insert sets the key's entry,
\* Delete removes it, Access changes nothing and Clear empties the map.
C15_MapRefinement ==
    hist.side => Range(Triples(tree)) = hist.map

\* C16: an Access or a Delete with a key that no node of the tree holds returns
\* absence (the null node, false) and leaves the whole tree as it was: the
\* root, every node's links, key, title and timestamp, and the size.
C16_NotFoundNoOp ==
    [][(/\ lastOp'.name \in {"access", "delete"}
        /\ ~Present(tree, lastOp'.id)) =>
            /\ lastOp'.ret = 0
            /\ tree' = tree]_vars

\* a Delete has returned false on a tree of MaxNodes nodes that holds no node
\* with its key, the key being neither the smallest nor the largest
C16_Witness ==
    /\ lastOp.name = "delete"
    /\ lastOp.ret = 0
    /\ ~Present(tree, lastOp.id)
    /\ tree.size = MaxNodes
    /\ \E n \in Reach(tree) : strcmp(tree.node[n].chat_id, lastOp.id) > 0
    /\ \E n \in Reach(tree) : strcmp(tree.node[n].chat_id, lastOp.id) < 0

NextSplay == ShapeInsert \/ SplayBegin \/ SplayStep \/ SplayEnd

\* the runs in which any node of a tree of up to MaxNodes + 1 nodes is splayed
\* step by step; a call of splay that has started goes on, iteration after
\* iteration, and returns when its loop condition fails
SpecSplay ==
    /\ InitDeep
    /\ [][NextSplay]_vars
    /\ WF_vars(SplayStep)
    /\ WF_vars(SplayEnd)

\* the number of parent links from x up to a node without parent
RECURSIVE Depth(_, _)
Depth(M, x) == IF M.node[x].parent = NULL THEN 0 ELSE 1 + Depth(M, M.node[x].parent)

\* C17: splay of a node x reachable from the root terminates; each iteration of
\* its loop lowers the depth of x, by one where x's parent has no parent (zig)
\* and by two otherwise (zig-zig, zig-zag); on exit x has no parent and is the
\* root, and the tree is the one the whole call of splay yields.
C17_SplayTerminates ==
    /\ [][(lastOp.name = "splay" /\ lastOp'.name = "splay") =>
            LET x == lastOp.ret
                p == tree.node[x].parent
            IN  /\ Depth(tree', x) = Depth(tree, x) -
                       (IF tree.node[p].parent = NULL THEN 1 ELSE 2)
                /\ Reach(tree') = Reach(tree)
                /\ splay(tree', x) = splay(tree, x)]_vars
    /\ [][lastOp'.name = "splayed" =>
            /\ tree'.node[lastOp'.ret].parent = NULL
            /\ tree'.root = lastOp'.ret
            /\ tree' = splay(tree, lastOp'.ret)]_vars
    /\ []<>(lastOp.name # "splay")

\* inside a call of splay on a tree of MaxNodes + 1 nodes: one iteration, of
\* the zig-zag case, has been made and x still has a parent, the root
C17_Witness ==
    /\ lastOp.name = "splay"
    /\ lastOp.out = <<1>>
    /\ tree.size = MaxNodes + 1
    /\ tree.node[lastOp.ret].parent = tree.root
    /\ tree.node[lastOp.ret].left # NULL
    /\ tree.node[lastOp.ret].right # NULL

NextRotate == ShapeInsert \/ RotateRight \/ RotateLeft

\* the runs of inserts and single rotations on trees of up to MaxNodes + 1
\* nodes with distinct keys
SpecRotate == InitDeep /\ [][NextRotate]_vars

ParentConsistent(M) ==
    LET R == Reach(M)
    IN  /\ M.root # NULL => M.node[M.root].parent = NULL
        /\ \A n \in R \ {M.root} :
              /\ M.node[n].parent \in R
              /\ n \in Children(M, M.node[n].parent)
        /\ \A n \in R : \A c \in Children(M, n) : M.node[c].parent = n

\* what a rotation at x with pivot child y does: y is where x was (the root if
\* x was the root, else the same child of x's parent), and x is y's child
Moved(M, N, x, y) ==
    LET xp == M.node[x].parent
    IN  /\ N.node[y].parent = xp
        /\ IF xp = NULL THEN N.root = y
           ELSE /\ N.root = M.root
                /\ x = M.node[xp].left => N.node[xp].left = y
                /\ x = M.node[xp].right => N.node[xp].right = y
        /\ N.node[x].parent = y
        /\ x \in Children(N, y)

\* C18: a rotation at any node x of a parent-consistent search tree leaves the
\* in-order sequence of the nodes and their keys, the set of nodes and the
\* parent consistency as they were; the pivot child y (x's left child for a
\* right rotation, its right child for a left one) takes x's place, the root
\* included, with x as its right (left) child; and where x has no pivot child
\* nothing changes.
C18_RotationPreservesOrder ==
    [][(lastOp'.name \in {"rotate_right", "rotate_left"} /\ ParentConsistent(tree)) =>
          LET x == lastOp'.ret
              right == lastOp'.name = "rotate_right"
              y == IF right THEN tree.node[x].left ELSE tree.node[x].right
          IN  /\ Collect(tree') = Collect(tree)
              /\ \A n \in tree.live : tree'.node[n].chat_id = tree.node[n].chat_id
              /\ Reach(tree') = Reach(tree)
              /\ tree'.live = tree.live
              /\ tree'.size = tree.size
              /\ ParentConsistent(tree')
              /\ IF y = NULL THEN tree' = tree
                 ELSE /\ Moved(tree, tree', x, y)
                      /\ IF right THEN tree'.node[y].right = x
                                  ELSE tree'.node[y].left = x]_vars

\* a right rotation has been made at a node that was a child of the root and
\* whose pivot child had a subtree to hand over: the node rotated is now a
\* grandchild of the root and has a left child
C18_Witness ==
    /\ lastOp.name = "rotate_right"
    /\ tree.node[lastOp.ret].left # NULL
    /\ tree.node[lastOp.ret].parent # NULL
    /\ tree.node[tree.node[lastOp.ret].parent].right = lastOp.ret
    /\ tree.node[tree.node[lastOp.ret].parent].parent = tree.root

====
